---- MODULE Spec2Model ----
(***************************************************************************)
(* QoS resource handling of the CRI server (server/qos_resources_linux.go) *)
(* and the Status RPC that publishes the QoS resource catalog.             *)
(*                                                                         *)
(* Go values are represented as follows.                                   *)
(*   map[string]string      a function whose DOMAIN is the set of keys     *)
(*   map[string]struct{}    the set of its keys                            *)
(*   []T                    a sequence                                     *)
(*   *T                     a record with a field nil (TRUE: nil pointer)  *)
(*   error                  a record [kind, r, c]; Nil is the nil error    *)
(* A range over a Go map visits the keys in an unspecified order: every    *)
(* call draws the order it uses.                                           *)
(***************************************************************************)
EXTENDS Integers, Sequences, FiniteSets, TLC

(***************************************************************************)
(* Bounds of the model                                                     *)
(***************************************************************************)
\* largest number of entries of a QoS resource map drawn from the pools
MaxEntries == 2

(***************************************************************************)
(* Names                                                                   *)
(***************************************************************************)
QoSResourceRdt == "rdt"

QoSResourceBlockio == "blockio"

\* rdt.ResctrlPrefix, the namespace prefix put in front of the class name
ResctrlPrefix == "resctrl:"

Range(s) == {s[i] : i \in DOMAIN s}

(***************************************************************************)
(* Errors                                                                  *)
(***************************************************************************)
Nil == [kind |-> "nil", r |-> "", c |-> ""]

\* fmt.Errorf("unknown QoS resource type %q", r)
UnknownResourceType(r) == [kind |-> "UnknownResourceType", r |-> r, c |-> ""]

\* fmt.Errorf("unknown %s class %q", r, c)
UnknownClass(r, c) == [kind |-> "UnknownClass", r |-> r, c |-> c]

\* fmt.Errorf("empty class name not allowed for QoS resource type %q", r)
EmptyClassName(r) == [kind |-> "EmptyClassName", r |-> r, c |-> ""]

\* fmt.Errorf("RDT disabled, ...") and fmt.Errorf("BlockIO disabled, ...")
SubsystemDisabled(r, c) == [kind |-> "SubsystemDisabled", r |-> r, c |-> c]

\* the error of an annotation resolver, passed on as it is
AnnotationResolutionError(r) == [kind |-> "AnnotationResolutionError", r |-> r, c |-> ""]

(***************************************************************************)
(* The catalog built by init()                                             *)
(***************************************************************************)
createClassInfos(names) ==
    [i \in 1..Len(names) |-> [Name |-> names[i], Capacity |-> i - 1]]

QoSResourceInfo(name, classes) ==
    [Name |-> name, Mutable |-> FALSE, Classes |-> createClassInfos(classes)]

InitPodQoSResourcesInfo ==
    << QoSResourceInfo("podres-1", <<"qos-a", "qos-b", "qos-c", "qos-d">>),
       QoSResourceInfo("podres-2", <<"cls-1", "cls-2", "cls-3", "cls-4", "cls-5">>) >>

InitContainerQoSResourcesInfo ==
    << QoSResourceInfo("dummy-1", <<"class-a", "class-b", "class-c", "class-d">>),
       QoSResourceInfo("dummy-2", <<"platinum", "gold", "silver", "bronze">>) >>

\* a generator that loses the last class of every resource
dummuGen_DropsLastClass(in) ==
    [r \in {in[i].Name : i \in DOMAIN in} |->
        UNION {{in[i].Classes[j].Name : j \in 1..(Len(in[i].Classes) - 1)} :
                  i \in {k \in DOMAIN in : in[k].Name = r}}]

\* name -> set of class names; a later entry of the same name replaces an
\* earlier one (out[info.Name] = classes)
dummuGen(in) ==
    [r \in {in[i].Name : i \in DOMAIN in} |->
        LET last == CHOOSE i \in DOMAIN in :
                        /\ in[i].Name = r
                        /\ \A k \in DOMAIN in : in[k].Name = r => k <= i
        IN  {in[last].Classes[j].Name : j \in DOMAIN in[last].Classes}]

(***************************************************************************)
(* State                                                                   *)
(***************************************************************************)
VARIABLES
    rdtClasses,                     \* s.Config().Rdt().GetClasses()
    rdtEnabled,                     \* s.Config().Rdt().Enabled()
    blockioClasses,                 \* s.Config().BlockIO().GetClasses()
    blockioEnabled,                 \* s.Config().BlockIO().Enabled()
    dummyPodQoSResourcesInfo,
    dummyContainerQoSResourcesInfo,
    dummyPodQoSResources,
    dummyContainerQoSResources,
    spec,                           \* the launch descriptor (spec.Linux) last handled
    specBefore,                     \* that descriptor as it was when the last call began
    op,                             \* the call being served; "none": the server is idle
    call,                           \* the inputs of the last handler call
    ret,                            \* what the last handler call returned
    prevRet,                        \* what the call before a repeated call returned
    status                          \* the StatusResponse, when the last operation was Status

vars == << rdtClasses, rdtEnabled, blockioClasses, blockioEnabled,
           dummyPodQoSResourcesInfo, dummyContainerQoSResourcesInfo,
           dummyPodQoSResources, dummyContainerQoSResources,
           spec, specBefore, op, call, ret, prevRet, status >>

catalog == << rdtClasses, rdtEnabled, blockioClasses, blockioEnabled,
              dummyPodQoSResourcesInfo, dummyContainerQoSResourcesInfo,
              dummyPodQoSResources, dummyContainerQoSResources >>

(***************************************************************************)
(* The status catalog                                                      *)
(***************************************************************************)
getPodQoSResourcesInfo == << >> \o dummyPodQoSResourcesInfo

getContainerQoSResourcesInfo ==
    (IF Len(rdtClasses) > 0
        THEN << QoSResourceInfo(QoSResourceRdt, rdtClasses) >> ELSE << >>)
    \o (IF Len(blockioClasses) > 0
        THEN << QoSResourceInfo(QoSResourceBlockio, blockioClasses) >> ELSE << >>)
    \o dummyContainerQoSResourcesInfo

(***************************************************************************)
(* The validation loops                                                    *)
(***************************************************************************)
\* one pass of the loop of handleSandboxQoSResources: every key takes the
\* default branch of the switch
handleSandboxEntry(r, c) ==
    IF r \notin DOMAIN dummyPodQoSResources THEN UnknownResourceType(r)
    ELSE IF c \notin dummyPodQoSResources[r] THEN UnknownClass(r, c)
    ELSE IF c = "" THEN EmptyClassName(r)
    ELSE Nil

RECURSIVE handleSandboxLoop(_, _)
handleSandboxLoop(order, classes) ==
    IF order = << >> THEN Nil
    ELSE LET e == handleSandboxEntry(Head(order), classes[Head(order)])
         IN  IF e # Nil THEN e ELSE handleSandboxLoop(Tail(order), classes)

handleSandboxQoSResources(classes, order) == handleSandboxLoop(order, classes)

\* a loop body without the two native cases: RDT and BlockIO fall into default
handleContainerEntry_NoNativeCases(r, c) ==
    IF r \notin DOMAIN dummyContainerQoSResources THEN UnknownResourceType(r)
    ELSE IF c \notin dummyContainerQoSResources[r] THEN UnknownClass(r, c)
    ELSE IF c = "" THEN EmptyClassName(r)
    ELSE Nil

\* a loop body that lets an unknown resource type through
handleContainerEntry_SkipsUnknown(r, c) ==
    IF r \in {QoSResourceRdt, QoSResourceBlockio}
        THEN (IF c = "" THEN EmptyClassName(r) ELSE Nil)
    ELSE IF r \notin DOMAIN dummyContainerQoSResources THEN Nil
    ELSE IF c \notin dummyContainerQoSResources[r] THEN UnknownClass(r, c)
    ELSE IF c = "" THEN EmptyClassName(r)
    ELSE Nil

\* one pass of the loop of handleContainerQoSResources: the cases of RDT and
\* BlockIO are empty (a Go case does not fall through), every other key takes
\* the default branch; the test of the empty class name follows the switch
handleContainerEntry(r, c) ==
    IF r = QoSResourceRdt THEN (IF c = "" THEN EmptyClassName(r) ELSE Nil)
    ELSE IF r = QoSResourceBlockio THEN (IF c = "" THEN EmptyClassName(r) ELSE Nil)
    ELSE IF r \notin DOMAIN dummyContainerQoSResources THEN UnknownResourceType(r)
    ELSE IF c \notin dummyContainerQoSResources[r] THEN UnknownClass(r, c)
    ELSE IF c = "" THEN EmptyClassName(r)
    ELSE Nil

RECURSIVE handleContainerLoop(_, _)
handleContainerLoop(order, classes) ==
    IF order = << >> THEN Nil
    ELSE LET e == handleContainerEntry(Head(order), classes[Head(order)])
         IN  IF e # Nil THEN e ELSE handleContainerLoop(Tail(order), classes)

(***************************************************************************)
(* The class resolver                                                      *)
(***************************************************************************)
\* cls, ok := container.GetQosResources().GetClasses()[resourceType]
getClassFromResourceConfig(resourceType, classes) ==
    IF resourceType \in DOMAIN classes
        THEN [cls |-> classes[resourceType], ok |-> TRUE]
        ELSE [cls |-> "", ok |-> FALSE]

\* the result of a resolver that was not called
NotRun == [cls |-> "", err |-> Nil, consulted |-> FALSE, ran |-> FALSE]

\* the common body of getContainerRdtClass and getContainerBlockioClass;
\* ann is what ContainerClassFromAnnotations returns when it is called,
\* consulted records whether it was
resolveClass(resourceType, classes, ann, enabled) ==
    LET q == getClassFromResourceConfig(resourceType, classes)
        cls == IF q.ok THEN q.cls ELSE ann.cls
    IN  IF ~q.ok /\ ann.err # Nil
            THEN [cls |-> "", err |-> ann.err, consulted |-> TRUE, ran |-> TRUE]
        ELSE IF cls # "" /\ ~enabled
            THEN [cls |-> "", err |-> SubsystemDisabled(resourceType, cls),
                  consulted |-> ~q.ok, ran |-> TRUE]
        ELSE [cls |-> cls, err |-> Nil, consulted |-> ~q.ok, ran |-> TRUE]

\* a resolver that asks the annotations first and lets them win
getContainerRdtClass_AnnotationWins(classes, ann) ==
    LET q == getClassFromResourceConfig(QoSResourceRdt, classes)
        cls == IF ann.cls # "" THEN ann.cls ELSE q.cls
    IN  IF ann.err # Nil
            THEN [cls |-> "", err |-> ann.err, consulted |-> TRUE, ran |-> TRUE]
        ELSE IF cls # "" /\ ~rdtEnabled
            THEN [cls |-> "", err |-> SubsystemDisabled(QoSResourceRdt, cls),
                  consulted |-> TRUE, ran |-> TRUE]
        ELSE [cls |-> cls, err |-> Nil, consulted |-> TRUE, ran |-> TRUE]

\* a resolver that drops the class of a disabled subsystem without an error
getContainerRdtClass_SilentDrop(classes, ann) ==
    LET res == resolveClass(QoSResourceRdt, classes, ann, rdtEnabled)
    IN  IF res.err.kind = "SubsystemDisabled"
            THEN [res EXCEPT !.err = Nil, !.cls = ""]
            ELSE res

getContainerRdtClass(classes, ann) ==
    resolveClass(QoSResourceRdt, classes, ann, rdtEnabled)

getContainerBlockioClass(classes, ann) ==
    resolveClass(QoSResourceBlockio, classes, ann, blockioEnabled)

(***************************************************************************)
(* The projector                                                           *)
(***************************************************************************)
NilIntelRdt == [nil |-> TRUE, ClosID |-> ""]

NilBlockIO == [nil |-> TRUE, Class |-> ""]

NilResources == [nil |-> TRUE, BlockIO |-> NilBlockIO]

\* blockio.OciLinuxBlockIO(class): the limits of the class, or an error
OciLinuxBlockIO(class, ociOk) ==
    IF ociOk THEN [val |-> [nil |-> FALSE, Class |-> class], err |-> Nil]
             ELSE [val |-> NilBlockIO, err |-> [kind |-> "TranslationError", r |-> QoSResourceBlockio, c |-> class]]

\* a projection that appends to the ClosID already in the descriptor
projectRdt_Accumulates(sp, rdtClass) ==
    IF rdtClass # ""
        THEN [sp EXCEPT !.IntelRdt =
                 [nil |-> FALSE, ClosID |-> sp.IntelRdt.ClosID \o ResctrlPrefix \o rdtClass]]
        ELSE sp

\* if rdtClass != "" { spec.Linux.IntelRdt = &rspec.LinuxIntelRdt{ClosID: ...} }
projectRdt(sp, rdtClass) ==
    IF rdtClass # ""
        THEN [sp EXCEPT !.IntelRdt = [nil |-> FALSE, ClosID |-> ResctrlPrefix \o rdtClass]]
        ELSE sp

\* a projection that makes the Resources structure before it translates
projectBlockio_CreatesFirst(sp, blockioClass, ociOk) ==
    IF blockioClass # ""
        THEN LET t == OciLinuxBlockIO(blockioClass, ociOk)
                 res == IF sp.Resources.nil
                            THEN [nil |-> FALSE, BlockIO |-> NilBlockIO]
                            ELSE sp.Resources
             IN  IF t.err = Nil
                    THEN [sp EXCEPT !.Resources = [res EXCEPT !.BlockIO = t.val]]
                    ELSE [sp EXCEPT !.Resources = res]
        ELSE sp

\* if blockioClass != "" { if linuxBlockIO, err := ...; err == nil { ... } }
projectBlockio(sp, blockioClass, ociOk) ==
    IF blockioClass # ""
        THEN LET t == OciLinuxBlockIO(blockioClass, ociOk)
                 res == IF sp.Resources.nil
                            THEN [nil |-> FALSE, BlockIO |-> NilBlockIO]
                            ELSE sp.Resources
             IN  IF t.err = Nil
                    THEN [sp EXCEPT !.Resources = [res EXCEPT !.BlockIO = t.val]]
                    ELSE sp
        ELSE sp

(***************************************************************************)
(* handleContainerQoSResources                                             *)
(***************************************************************************)
\* a handler that projects each class before it looks at the resolver's error
handleContainerQoSResources_ProjectsBeforeCheck(sp, classes, order, rdtAnn, blockioAnn, ociOk) ==
    LET verr == handleContainerLoop(order, classes)
        rdt == getContainerRdtClass(classes, rdtAnn)
        sp1 == projectRdt(sp, rdt.cls)
        bio == getContainerBlockioClass(classes, blockioAnn)
        cand == getClassFromResourceConfig(QoSResourceBlockio, classes)
        sp2 == projectBlockio(sp1, IF cand.ok THEN cand.cls ELSE blockioAnn.cls, ociOk)
    IN  IF verr # Nil
            THEN [spec |-> sp, err |-> verr, stage |-> "validate",
                  rdt |-> NotRun, blockio |-> NotRun]
        ELSE IF rdt.err # Nil
            THEN [spec |-> sp1, err |-> rdt.err, stage |-> "rdt",
                  rdt |-> rdt, blockio |-> NotRun]
        ELSE IF bio.err # Nil
            THEN [spec |-> sp2, err |-> bio.err, stage |-> "blockio",
                  rdt |-> rdt, blockio |-> bio]
        ELSE [spec |-> sp2, err |-> Nil, stage |-> "done",
              rdt |-> rdt, blockio |-> bio]

\* stage names the step that returned; rdt and blockio are what the two
\* resolvers returned (NotRun when the call returned before)
handleContainerQoSResources(sp, classes, order, rdtAnn, blockioAnn, ociOk) ==
    LET verr == handleContainerLoop(order, classes)
        rdt == getContainerRdtClass(classes, rdtAnn)
        sp1 == projectRdt(sp, rdt.cls)
        bio == getContainerBlockioClass(classes, blockioAnn)
        sp2 == projectBlockio(sp1, bio.cls, ociOk)
    IN  IF verr # Nil
            THEN [spec |-> sp, err |-> verr, stage |-> "validate",
                  rdt |-> NotRun, blockio |-> NotRun]
        ELSE IF rdt.err # Nil
            THEN [spec |-> sp, err |-> rdt.err, stage |-> "rdt",
                  rdt |-> rdt, blockio |-> NotRun]
        ELSE IF bio.err # Nil
            THEN [spec |-> sp1, err |-> bio.err, stage |-> "blockio",
                  rdt |-> rdt, blockio |-> bio]
        ELSE [spec |-> sp2, err |-> Nil, stage |-> "done",
              rdt |-> rdt, blockio |-> bio]

(***************************************************************************)
(* Inputs                                                                  *)
(***************************************************************************)
\* the class lists a platform configuration may report for RDT and BlockIO
NativeClassLists == { << >>, <<"gold", "silver">> }

ContainerKeyPool == {QoSResourceRdt, QoSResourceBlockio, "dummy-2", "no-such"}

ContainerClassPool == {"", "gold", "nope"}

PodKeyPool == {"podres-1", QoSResourceRdt, "no-such"}

PodClassPool == {"", "qos-a", "nope"}

\* the resource maps of at most MaxEntries entries over the pools
Maps(keys, classes) ==
    UNION {[D -> classes] : D \in {K \in SUBSET keys : Cardinality(K) <= MaxEntries}}

\* the maps that carry exactly one (resource type, class) pair of a catalog
SinglePairs(info) ==
    UNION {{[k \in {info[i].Name} |-> info[i].Classes[j].Name] :
               j \in DOMAIN info[i].Classes} : i \in DOMAIN info}

\* the orders in which a range may visit the keys of a map
Orders(classes) ==
    {o \in [1..Cardinality(DOMAIN classes) -> DOMAIN classes] :
        \A i, j \in DOMAIN o : o[i] = o[j] => i = j}

\* what an annotation resolver may return: no class, a class, or an error
AnnResults(r) ==
    { [cls |-> "", err |-> Nil],
      [cls |-> "silver", err |-> Nil],
      [cls |-> "", err |-> AnnotationResolutionError(r)] }

\* the launch descriptors a call may be given
Descriptors ==
    [IntelRdt : {NilIntelRdt, [nil |-> FALSE, ClosID |-> ResctrlPrefix \o "gold"]},
     Resources : {NilResources,
                  [nil |-> FALSE, BlockIO |-> NilBlockIO],
                  [nil |-> FALSE, BlockIO |-> [nil |-> FALSE, Class |-> "gold"]]}]

NoCall == [classes |-> << >>, rdtAnn |-> [cls |-> "", err |-> Nil],
           blockioAnn |-> [cls |-> "", err |-> Nil], ociOk |-> TRUE]

NoRet == [err |-> Nil, stage |-> "none", rdt |-> NotRun, blockio |-> NotRun]

NoStatus == [Conditions |-> << >>,
             Resources |-> [PodQosResources |-> << >>, ContainerQosResources |-> << >>]]

(***************************************************************************)
(* Initial state: init() has run, the configuration is loaded              *)
(***************************************************************************)
Init ==
    /\ rdtClasses \in NativeClassLists
    /\ rdtEnabled \in BOOLEAN
    /\ blockioClasses \in NativeClassLists
    /\ blockioEnabled \in BOOLEAN
    /\ dummyPodQoSResourcesInfo = InitPodQoSResourcesInfo
    /\ dummyContainerQoSResourcesInfo = InitContainerQoSResourcesInfo
    /\ dummyPodQoSResources = dummuGen(InitPodQoSResourcesInfo)
    /\ dummyContainerQoSResources = dummuGen(InitContainerQoSResourcesInfo)
    /\ spec = [IntelRdt |-> NilIntelRdt, Resources |-> NilResources]
    /\ specBefore = spec
    /\ op = "none"
    /\ call = NoCall
    /\ ret = NoRet
    /\ prevRet = NoRet
    /\ status = NoStatus

(***************************************************************************)
(* Operations                                                              *)
(***************************************************************************)
\* Server.Status; cniErr: CNIPluginReadyOrError returned an error
Status ==
    /\ op = "none"
    /\ \E cniErr \in BOOLEAN :
        /\ status' =
              [Conditions |->
                  << [Type |-> "RuntimeReady", Status |-> TRUE, Reason |-> ""],
                     [Type |-> "NetworkReady", Status |-> ~cniErr,
                      Reason |-> IF cniErr THEN "NetworkPluginNotReady" ELSE ""] >>,
               Resources |->
                  [PodQosResources |-> getPodQoSResourcesInfo,
                   ContainerQosResources |-> getContainerQoSResourcesInfo]]
        /\ op' = "status"
        /\ call' = NoCall
        /\ ret' = NoRet
        /\ prevRet' = NoRet
        /\ UNCHANGED << catalog, spec, specBefore >>

\* Server.handleSandboxQoSResources on a pod's resource map
HandleSandbox ==
    /\ op = "none"
    /\ \E classes \in Maps(PodKeyPool, PodClassPool) \cup SinglePairs(getPodQoSResourcesInfo) :
      \E order \in Orders(classes) :
        /\ op' = "sandbox"
        /\ call' = [NoCall EXCEPT !.classes = classes]
        /\ ret' = [NoRet EXCEPT !.err = handleSandboxQoSResources(classes, order),
                                !.stage = "validate"]
        /\ prevRet' = NoRet
        /\ status' = NoStatus
        /\ UNCHANGED << catalog, spec, specBefore >>

\* Server.handleContainerQoSResources on a descriptor the caller hands in
HandleContainer ==
    /\ op = "none"
    /\ \E classes \in Maps(ContainerKeyPool, ContainerClassPool)
                      \cup SinglePairs(getContainerQoSResourcesInfo),
       sp \in Descriptors,
       rdtAnn \in AnnResults(QoSResourceRdt),
       blockioAnn \in AnnResults(QoSResourceBlockio),
       ociOk \in BOOLEAN :
      \E order \in Orders(classes) :
        LET out == handleContainerQoSResources(sp, classes, order, rdtAnn, blockioAnn, ociOk)
        IN  /\ op' = "container"
            /\ call' = [classes |-> classes, rdtAnn |-> rdtAnn,
                        blockioAnn |-> blockioAnn, ociOk |-> ociOk]
            /\ specBefore' = sp
            /\ spec' = out.spec
            /\ ret' = [err |-> out.err, stage |-> out.stage,
                       rdt |-> out.rdt, blockio |-> out.blockio]
            /\ prevRet' = NoRet
            /\ status' = NoStatus
            /\ UNCHANGED catalog

\* Server.handleContainerQoSResources once more, on the descriptor the last
\* call left, with the same container, annotations and collaborator results
RepeatContainer ==
    /\ op \in {"container", "repeat"}
    /\ \E order \in Orders(call.classes) :
        LET out == handleContainerQoSResources(spec, call.classes, order,
                                               call.rdtAnn, call.blockioAnn, call.ociOk)
        IN  /\ op' = "repeat"
            /\ specBefore' = spec
            /\ spec' = out.spec
            /\ prevRet' = ret
            /\ ret' = [err |-> out.err, stage |-> out.stage,
                       rdt |-> out.rdt, blockio |-> out.blockio]
            /\ UNCHANGED << catalog, call, status >>

\* the call is over: its request, annotations, descriptor and result are
\* discarded and the server is ready for the next call
Discard ==
    /\ op # "none"
    /\ op' = "none"
    /\ call' = NoCall
    /\ ret' = NoRet
    /\ prevRet' = NoRet
    /\ status' = NoStatus
    /\ spec' = [IntelRdt |-> NilIntelRdt, Resources |-> NilResources]
    /\ specBefore' = spec'
    /\ UNCHANGED catalog

Next == Status \/ HandleSandbox \/ HandleContainer \/ RepeatContainer \/ Discard

Spec == Init /\ [][Next]_vars

(***************************************************************************)
(* Vocabulary of the properties                                            *)
(***************************************************************************)
Natives == {QoSResourceRdt, QoSResourceBlockio}

IsContainerCall == op \in {"container", "repeat"}

IsHandlerCall == op \in {"sandbox", "container", "repeat"}

\* the resource types the validator of the call's scope knows
KnownSet ==
    IF op = "sandbox" THEN DOMAIN dummyPodQoSResources
                      ELSE Natives \cup DOMAIN dummyContainerQoSResources

\* the entry (r, c) breaks none of the validator's rules
ValidEntry(r, c) ==
    /\ r \in KnownSet
    /\ c # ""
    /\ op = "sandbox" => c \in dummyPodQoSResources[r]
    /\ (op # "sandbox" /\ r \notin Natives) => c \in dummyContainerQoSResources[r]

ViolatingKeys == {r \in DOMAIN call.classes : ~ValidEntry(r, call.classes[r])}

\* the class the resolver of resource type r has to decide on
Candidate(r, ann) ==
    IF r \in DOMAIN call.classes THEN call.classes[r]
    ELSE IF ann.err = Nil THEN ann.cls ELSE ""

(***************************************************************************)
(* C1  Precedence of the structured map over the annotations               *)
(***************************************************************************)
PrecedenceOf(r, res, ann) ==
    res.ran =>
        IF r \in DOMAIN call.classes
            THEN /\ ~res.consulted
                 /\ res.err = Nil => res.cls = call.classes[r]
                 /\ res.err # Nil => res.err = SubsystemDisabled(r, call.classes[r])
            ELSE /\ res.consulted
                 /\ res.err = Nil => res.cls = ann.cls
                 /\ ann.err # Nil => res.err = ann.err

\* C1: whenever a native resolver runs on a validated request and the map has
\* a key for its type, it does not ask the annotation resolver and the class
\* it resolves is the map's value; with no such key it asks the annotation
\* resolver and the class it resolves is that resolver's result.
C1_Precedence ==
    IsContainerCall =>
        /\ PrecedenceOf(QoSResourceRdt, ret.rdt, call.rdtAnn)
        /\ PrecedenceOf(QoSResourceBlockio, ret.blockio, call.blockioAnn)

\* the map names an RDT class while the annotations would give another one,
\* and BlockIO, absent from the map, falls back to its annotation
C1_Witness ==
    /\ op = "container"
    /\ DOMAIN call.classes = {QoSResourceRdt}
    /\ call.classes[QoSResourceRdt] = "gold"
    /\ call.rdtAnn.cls = "silver"
    /\ ret.rdt.cls = "gold"
    /\ call.blockioAnn.cls = "silver"
    /\ ret.blockio.cls = "silver"

(***************************************************************************)
(* C2  An empty class name                                                 *)
(***************************************************************************)
\* C2: every pod or container resource map with a key whose value is the
\* empty string is rejected with EmptyClassName, whatever the resource type.
C2_EmptyClassName ==
    (IsHandlerCall /\ \E r \in DOMAIN call.classes : call.classes[r] = "")
        => ret.err.kind = "EmptyClassName"

(***************************************************************************)
(* C3  An unknown resource type                                            *)
(***************************************************************************)
\* C3 as stated: every resource map with a key outside the known set is
\* rejected with UnknownResourceType, whatever else it holds and whatever the
\* iteration order.
C3_AlwaysUnknownResourceType ==
    (IsHandlerCall /\ \E r \in DOMAIN call.classes : r \notin KnownSet)
        => ret.err.kind = "UnknownResourceType"

\* C3 as amended: every resource map with a key outside the known set is
\* rejected by the validation loop, and with UnknownResourceType whenever
\* all its entries of known type are valid.
C3_UnknownResourceType ==
    (IsHandlerCall /\ \E r \in DOMAIN call.classes : r \notin KnownSet)
        => /\ ret.err # Nil
           /\ ret.stage = "validate"
           /\ (\A r \in ViolatingKeys : r \notin KnownSet)
                 => ret.err.kind = "UnknownResourceType"

\* a container map with an unknown type next to a valid RDT entry is rejected
C3_Witness ==
    /\ op = "container"
    /\ DOMAIN call.classes = {"no-such", QoSResourceRdt}
    /\ call.classes[QoSResourceRdt] = "gold"
    /\ ret.err = UnknownResourceType("no-such")

(***************************************************************************)
(* C4  The native types are known                                          *)
(***************************************************************************)
OnlyNativeEntries ==
    /\ DOMAIN call.classes # {}
    /\ DOMAIN call.classes \subseteq Natives
    /\ \A r \in DOMAIN call.classes : call.classes[r] # ""

\* C4 as stated: a map that holds only RDT and BlockIO keys with non-empty
\* class names is never rejected with UnknownResourceType, pod-scoped or
\* container-scoped.
C4_NativeKnownInBothScopes ==
    (IsHandlerCall /\ OnlyNativeEntries) => ret.err.kind # "UnknownResourceType"

\* C4 as amended: the validation loop of a container-scoped call lets such a
\* map pass; a pod-scoped call rejects it with UnknownResourceType.
C4_NativeKnownToContainers ==
    /\ (IsContainerCall /\ OnlyNativeEntries) => ret.stage # "validate"
    /\ (op = "sandbox" /\ OnlyNativeEntries) => ret.err.kind = "UnknownResourceType"

\* a container map of an RDT and a BlockIO entry is handled to the end
C4_Witness ==
    /\ op = "container"
    /\ DOMAIN call.classes = Natives
    /\ OnlyNativeEntries
    /\ ret.stage = "done"

(***************************************************************************)
(* C5  A class for a disabled subsystem                                    *)
(***************************************************************************)
\* C5: a non-empty candidate class for a disabled native type never ends in
\* success; when the type's resolver is reached the call returns that type's
\* SubsystemDisabled error; for RDT the descriptor is left as it was.
C5_SubsystemDisabled ==
    IsContainerCall =>
        LET rc == Candidate(QoSResourceRdt, call.rdtAnn)
            bc == Candidate(QoSResourceBlockio, call.blockioAnn)
        IN  /\ (rc # "" /\ ~rdtEnabled) =>
                   /\ ret.err # Nil
                   /\ spec = specBefore
                   /\ ret.rdt.ran => ret.err = SubsystemDisabled(QoSResourceRdt, rc)
            /\ (bc # "" /\ ~blockioEnabled) =>
                   /\ ret.err # Nil
                   /\ spec.Resources = specBefore.Resources
                   /\ ret.blockio.ran => ret.err = SubsystemDisabled(QoSResourceBlockio, bc)

\* the map asks for an RDT class while RDT is disabled
C5_Witness ==
    /\ op = "container"
    /\ ~rdtEnabled
    /\ QoSResourceRdt \in DOMAIN call.classes
    /\ ret.err = SubsystemDisabled(QoSResourceRdt, "gold")
    /\ spec = specBefore

(***************************************************************************)
(* C6  Catalog consistency                                                 *)
(***************************************************************************)
\* C6: a request that carries exactly one (type, class) pair of the status
\* catalog of its scope is accepted: by handleSandboxQoSResources for the pod
\* catalog, by the validation loop of handleContainerQoSResources for the
\* container catalog.
C6_CatalogConsistency ==
    /\ (op = "sandbox" /\ call.classes \in SinglePairs(getPodQoSResourcesInfo))
          => ret.err = Nil
    /\ (IsContainerCall /\ call.classes \in SinglePairs(getContainerQoSResourcesInfo))
          => ret.stage # "validate"

\* the last class of the last pod resource is accepted
C6_Witness ==
    /\ op = "sandbox"
    /\ DOMAIN call.classes = {"podres-2"}
    /\ call.classes["podres-2"] = "cls-5"
    /\ ret.err = Nil

(***************************************************************************)
(* C7  Idempotence                                                         *)
(***************************************************************************)
\* C7 as stated: a second call with the same inputs leaves the descriptor as
\* the first call left it and returns the same outcome as the first.
C7_SameOutcome ==
    op = "repeat" => (spec = specBefore /\ ret.err = prevRet.err)

\* C7 as amended: a second call with the same inputs leaves the descriptor as
\* the first call left it, ends at the same step and succeeds or fails as the
\* first did; it returns the same error unless the map holds more than one
\* violating entry.
C7_Idempotent ==
    op = "repeat" =>
        /\ spec = specBefore
        /\ ret.stage = prevRet.stage
        /\ (ret.err = Nil) <=> (prevRet.err = Nil)
        /\ Cardinality(ViolatingKeys) <= 1 => ret = prevRet

\* a repeated successful call that projected both classes
C7_Witness ==
    /\ op = "repeat"
    /\ ret.err = Nil
    /\ ret.rdt.cls = "gold"
    /\ spec.IntelRdt = [nil |-> FALSE, ClosID |-> "resctrl:gold"]
    /\ spec.Resources.BlockIO = [nil |-> FALSE, Class |-> "silver"]

(***************************************************************************)
(* C8  The descriptor of a failed call                                     *)
(***************************************************************************)
\* C8 as stated: whenever handleContainerQoSResources returns an error the
\* descriptor is as it was before the call.
C8_ErrorAtomic ==
    (IsContainerCall /\ ret.err # Nil) => spec = specBefore

\* C8 as amended: a call that fails leaves the block-I/O section as it was;
\* it leaves the whole descriptor as it was when validation or the RDT
\* resolution fails; when the BlockIO resolution fails the ClosID of a
\* non-empty RDT class has been written.
C8_ErrorLeavesBlockIO ==
    (IsContainerCall /\ ret.err # Nil) =>
        /\ spec.Resources = specBefore.Resources
        /\ ret.stage \in {"validate", "rdt"} => spec = specBefore
        /\ ret.stage = "blockio" =>
              spec.IntelRdt = IF ret.rdt.cls # ""
                                 THEN [nil |-> FALSE, ClosID |-> ResctrlPrefix \o ret.rdt.cls]
                                 ELSE specBefore.IntelRdt

\* the BlockIO resolution fails after the ClosID was written
C8_Witness ==
    /\ op = "container"
    /\ ret.stage = "blockio"
    /\ ret.err # Nil
    /\ specBefore.IntelRdt.nil
    /\ ~spec.IntelRdt.nil
    /\ spec.Resources = specBefore.Resources

(***************************************************************************)
(* C9  A failed translation, an empty class                                *)
(***************************************************************************)
\* C9: when the BlockIO class is resolved, non-empty, and the translator
\* fails, the call succeeds and the Resources section is as before the call;
\* an empty resolved class leaves its type's field as before the call.
C9_TranslationSkipped ==
    IsContainerCall =>
        /\ (ret.blockio.ran /\ ret.blockio.err = Nil /\ ret.blockio.cls # "" /\ ~call.ociOk)
              => (ret.err = Nil /\ spec.Resources = specBefore.Resources)
        /\ (ret.blockio.ran /\ ret.blockio.err = Nil /\ ret.blockio.cls = "")
              => spec.Resources = specBefore.Resources
        /\ (ret.rdt.ran /\ ret.rdt.err = Nil /\ ret.rdt.cls = "")
              => spec.IntelRdt = specBefore.IntelRdt

\* the translator fails on a descriptor without a Resources structure
C9_Witness ==
    /\ op = "container"
    /\ ret.blockio.cls = "gold"
    /\ blockioEnabled
    /\ ~call.ociOk
    /\ specBefore.Resources.nil
    /\ spec.Resources.nil
    /\ ret.err = Nil

(***************************************************************************)
(* C10  Legality of a native class                                         *)
(***************************************************************************)
\* C10: in a successful call, a class of a native type taken from the
\* structured map is one of the classes the configuration reports for that
\* type.
C10_ClassLegality ==
    (IsContainerCall /\ ret.err = Nil) =>
        /\ QoSResourceRdt \in DOMAIN call.classes
              => call.classes[QoSResourceRdt] \in Range(rdtClasses)
        /\ QoSResourceBlockio \in DOMAIN call.classes
              => call.classes[QoSResourceBlockio] \in Range(blockioClasses)

====
